---- MODULE Spec2Model ----
(***************************************************************************)
(* Database provisioning (DatabaseManager.py) and the cat record façade    *)
(* (CatManager.py) of goit-cs-hw-03, as state machines.                    *)
(*                                                                         *)
(* The container runtime, the database engine, the script file and the     *)
(* operator at the terminal are the environment: what they answer is an    *)
(* input of each action.  One initializer is constructed per behaviour     *)
(* (db_type is fixed by Init), as get_initializer does.                    *)
(***************************************************************************)
EXTENDS Integers, Sequences, FiniteSets, TLC

VARIABLES
    db_type,    \* DatabaseType of the initializer: "postgresql" or "mongodb"
    db_params,  \* the caller's dictionary and the initializer's self.db_params
    container,  \* status of the container with the logical name, or "absent"
    exists,     \* the target database exists in the engine
    data,       \* contents of the target: rows (relational), documents by _id
    nextOid,    \* number of ObjectId() values generated so far
    tmConn,     \* a TaskManager instance holds a session on the target
    pc,         \* position of the running DatabaseManager.initialize_database
    run,        \* what the current / last initialize_database run did
    last,       \* the last direct call of an initializer operation
    cats,       \* the documents of cats_collection, in natural order
    catLast,    \* the last CatManager call
    nUsers,     \* committed rows of users: their ids are 1..nUsers
    tasks,      \* committed rows of tasks, by id
    nextTask,   \* last value of the sequence tasks_id_seq
    aborted,    \* the TaskManager session is in a failed transaction
    tmLast      \* the last TaskManager call

vars == <<db_type, db_params, container, exists, data, nextOid, tmConn, pc, run, last,
          cats, catLast, nUsers, tasks, nextTask, aborted, tmLast>>

provVars == <<db_type, db_params, container, exists, data, nextOid, tmConn, pc, run, last>>

catVars == <<cats, catLast>>

taskVars == <<nUsers, tasks, nextTask, aborted, tmLast>>

----------------------------------------------------------------------------
(* Bounds *)

\* ObjectId() values that may be generated in one behaviour
MaxGen == 3
\* objects in the array of a document-store script
MaxDocs == 2
\* statements in a relational script
MaxStmts == 2
\* documents in cats_collection
MaxCats == 2
\* rows of users
MaxUsers == 1
\* values drawn from tasks_id_seq
MaxTasks == 1

----------------------------------------------------------------------------
(* Helpers *)

RECURSIVE SeqsUpTo(_, _)
SeqsUpTo(S, n) ==
    IF n = 0 THEN {<<>>}
    ELSE LET shorter == SeqsUpTo(S, n - 1)
         IN  shorter \cup {Append(s, x) : s \in {t \in shorter : Len(t) = n - 1}, x \in S}

Range(s) == {s[i] : i \in DOMAIN s}

IsPrefix(s, t) == Len(s) <= Len(t) /\ SubSeq(t, 1, Len(s)) = s

----------------------------------------------------------------------------
(* The operator's answer: input(...).strip().lower() *)

Whitespace == {" ", "\t"}

RECURSIVE lstrip(_)
lstrip(s) == IF s # <<>> /\ Head(s) \in Whitespace THEN lstrip(Tail(s)) ELSE s

RECURSIVE rstrip(_)
rstrip(s) ==
    IF s # <<>> /\ s[Len(s)] \in Whitespace
    THEN rstrip(SubSeq(s, 1, Len(s) - 1)) ELSE s

strip(s) == rstrip(lstrip(s))

lowerChar(c) ==
    CASE c = "Y" -> "y" [] c = "E" -> "e" [] c = "S" -> "s"
      [] c = "N" -> "n" [] c = "O" -> "o" [] OTHER -> c

RECURSIVE lower(_)
lower(s) == IF s = <<>> THEN <<>> ELSE <<lowerChar(Head(s))>> \o lower(Tail(s))

\* what the operator may type at the prompt, character by character
Answers ==
    { <<"y", "e", "s">>, <<" ", "Y", "e", "S", "\t">>, <<"n", "o">>, <<>>,
      <<"y">>, <<"y", " ", "e", "s">>, <<"y", "e", "s", "s">> }

\* a gate that takes everything but "no" for consent: C1 fails of it
response_is_not_no(response) == response # <<"n", "o">>

\* if response == "yes"
response_is_yes(response) == response = <<"y", "e", "s">>

----------------------------------------------------------------------------
(* The container SDK *)

Variants == {"postgresql", "mongodb"}

Statuses == {"absent", "created", "exited", "running"}

\* which SDK call of a start_container invocation fails with an error other
\* than NotFound ("run_created": containers.run created the container and
\* failed to start it)
StartFaults == {"none", "from_env", "get", "start", "run", "run_created", "reload"}

StopFaults == {"none", "from_env", "get", "stop", "remove"}

\* a start_container that reads the status without waiting: C15 fails of it
settle_without_sleep(st, log, fault) ==
    IF fault = "reload"
    THEN [status |-> st, ret |-> "raised", log |-> Append(log, "reload")]
    ELSE [status |-> st,
          ret    |-> IF st = "running" THEN "true" ELSE "false",
          log    |-> Append(log, "reload")]

\* time.sleep(10); container.reload(); return container.status == "running"
settle(st, log, fault) ==
    IF fault = "reload"
    THEN [status |-> st, ret |-> "raised", log |-> log \o <<"sleep", "reload">>]
    ELSE [status |-> st,
          ret    |-> IF st = "running" THEN "true" ELSE "false",
          log    |-> log \o <<"sleep", "reload">>]

\* start_container that creates a new container whenever the one it found is
\* not running: C4 fails of it
start_container_recreates(status, fault, boots) ==
    LET after == IF boots THEN "running" ELSE "exited" IN
    IF fault = "from_env"
    THEN [status |-> status, ret |-> "raised", log |-> <<"from_env">>]
    ELSE IF fault = "get"
    THEN [status |-> status, ret |-> "raised", log |-> <<"from_env", "get">>]
    ELSE IF status # "running"
    THEN IF fault \in {"run", "run_created"}
         THEN [status |-> status, ret |-> "raised",
               log |-> <<"from_env", "get", "run">>]
         ELSE settle(after, <<"from_env", "get", "run">>, fault)
    ELSE IF fault = "reload"
    THEN [status |-> status, ret |-> "raised",
          log |-> <<"from_env", "get", "reload">>]
    ELSE [status |-> status, ret |-> "true",
          log |-> <<"from_env", "get", "reload">>]

\* start_container; boots: the started process stays up
start_container(status, fault, boots) ==
    LET after == IF boots THEN "running" ELSE "exited" IN
    IF fault = "from_env"
    THEN [status |-> status, ret |-> "raised", log |-> <<"from_env">>]
    ELSE IF fault = "get"
    THEN [status |-> status, ret |-> "raised", log |-> <<"from_env", "get">>]
    ELSE IF status = "absent"
    THEN \* except docker.errors.NotFound
         IF fault = "run"
         THEN [status |-> status, ret |-> "raised",
               log |-> <<"from_env", "get", "run">>]
         ELSE IF fault = "run_created"
         THEN [status |-> "created", ret |-> "raised",
               log |-> <<"from_env", "get", "run">>]
         ELSE settle(after, <<"from_env", "get", "run">>, fault)
    ELSE IF status # "running"
    THEN IF fault = "start"
         THEN [status |-> status, ret |-> "raised",
               log |-> <<"from_env", "get", "start">>]
         ELSE settle(after, <<"from_env", "get", "start">>, fault)
    ELSE IF fault = "reload"
    THEN [status |-> status, ret |-> "raised",
          log |-> <<"from_env", "get", "reload">>]
    ELSE [status |-> status,
          ret    |-> IF status = "running" THEN "true" ELSE "false",
          log    |-> <<"from_env", "get", "reload">>]

\* stop_container without the except clause for NotFound: C9 fails of it
stop_container_uncaught(status, remove, fault) ==
    IF fault = "from_env"
    THEN [status |-> status, ret |-> "raised", log |-> <<"from_env">>, msg |-> ""]
    ELSE IF fault = "get" \/ status = "absent"
    THEN [status |-> status, ret |-> "raised", log |-> <<"from_env", "get">>,
          msg |-> ""]
    ELSE LET wasRunning == status = "running"
             log1 == IF wasRunning THEN <<"from_env", "get", "stop">>
                     ELSE <<"from_env", "get">>
             st1  == IF wasRunning THEN "exited" ELSE status
             msg1 == IF wasRunning THEN "stopped" ELSE "not running"
         IN  IF wasRunning /\ fault = "stop"
             THEN [status |-> status, ret |-> "raised", log |-> log1, msg |-> ""]
             ELSE IF ~remove
             THEN [status |-> st1, ret |-> "none", log |-> log1, msg |-> msg1]
             ELSE IF fault = "remove"
             THEN [status |-> st1, ret |-> "raised",
                   log |-> Append(log1, "remove"), msg |-> msg1]
             ELSE [status |-> "absent", ret |-> "none",
                   log |-> Append(log1, "remove"), msg |-> "removed"]

\* stop_container that never removes the container: C14 fails of it
stop_container_keeps(status, remove, fault) ==
    IF fault = "from_env"
    THEN [status |-> status, ret |-> "raised", log |-> <<"from_env">>, msg |-> ""]
    ELSE IF fault = "get"
    THEN [status |-> status, ret |-> "raised", log |-> <<"from_env", "get">>,
          msg |-> ""]
    ELSE IF status = "absent"
    THEN [status |-> status, ret |-> "none", log |-> <<"from_env", "get">>,
          msg |-> "not found"]
    ELSE IF status # "running"
    THEN [status |-> status, ret |-> "none", log |-> <<"from_env", "get">>,
          msg |-> "not running"]
    ELSE IF fault = "stop"
    THEN [status |-> status, ret |-> "raised",
          log |-> <<"from_env", "get", "stop">>, msg |-> ""]
    ELSE [status |-> "exited", ret |-> "none",
          log |-> <<"from_env", "get", "stop">>, msg |-> "stopped"]

\* stop_container(remove)
stop_container(status, remove, fault) ==
    IF fault = "from_env"
    THEN [status |-> status, ret |-> "raised", log |-> <<"from_env">>, msg |-> ""]
    ELSE IF fault = "get"
    THEN [status |-> status, ret |-> "raised", log |-> <<"from_env", "get">>,
          msg |-> ""]
    ELSE IF status = "absent"
    THEN \* except docker.errors.NotFound
         [status |-> status, ret |-> "none", log |-> <<"from_env", "get">>,
          msg |-> "not found"]
    ELSE LET wasRunning == status = "running"
             log1 == IF wasRunning THEN <<"from_env", "get", "stop">>
                     ELSE <<"from_env", "get">>
             st1  == IF wasRunning THEN "exited" ELSE status
             msg1 == IF wasRunning THEN "stopped" ELSE "not running"
         IN  IF wasRunning /\ fault = "stop"
             THEN [status |-> status, ret |-> "raised", log |-> log1, msg |-> ""]
             ELSE IF ~remove
             THEN [status |-> st1, ret |-> "none", log |-> log1, msg |-> msg1]
             ELSE IF fault = "remove"
             THEN [status |-> st1, ret |-> "raised",
                   log |-> Append(log1, "remove"), msg |-> msg1]
             ELSE [status |-> "absent", ret |-> "none",
                   log |-> Append(log1, "remove"), msg |-> "removed"]

----------------------------------------------------------------------------
(* The database engine *)

\* an ObjectId() that repeats itself: C7 fails of it
ObjectId_new_repeats(oid) == <<"gen", 1>>

\* bson.ObjectId(): a value never produced before
ObjectId_new(oid) == <<"gen", oid + 1>>

\* bson.ObjectId(s): the 12 bytes that the hex string s denotes; the hex
\* digits are read case-insensitively
ObjectId_of(s) ==
    CASE s = "a1" -> <<"hex", "a1">>
      [] s = "A1" -> <<"hex", "a1">>

\* strings that ObjectId(s) accepts
ValidHex == {"a1", "A1"}

\* an object of a script, by its "_id": "none" is an object without one,
\* "bad" an object whose _id ObjectId() rejects
DocVals == {"none", "a1", "bad"}

\* a relational statement: insert the row, delete the row, or fail
Stmts == {"ins r1", "del r1", "err"}

stmtRow(st) == <<"row", "r1">>

NoScript == [path |-> "", kind |-> "none", docs |-> <<>>]

\* script_path = None
NoneScript == [path |-> "None", kind |-> "none", docs |-> <<>>]

\* a guard that takes only the empty string for an absent path: C13 fails
\* of it
absent_only_empty(path) == path = ""

\* if not script_path
absent(path) == path \in {"", "None"}

MongoScripts ==
    {NoScript, NoneScript}
    \cup {[path |-> "f", kind |-> k, docs |-> <<>>] :
            k \in {"nofile", "badjson", "scalar"}}
    \cup {[path |-> "f", kind |-> "dict", docs |-> <<d>>] :
            d \in DocVals \cup ValidHex}
    \cup {[path |-> "f", kind |-> "list", docs |-> s] : s \in SeqsUpTo(DocVals, MaxDocs)}

PgScripts ==
    {NoScript, NoneScript}
    \cup {[path |-> "f", kind |-> "nofile", docs |-> <<>>]}
    \cup {[path |-> "f", kind |-> "sql", docs |-> s] : s \in SeqsUpTo(Stmts, MaxStmts)}

Scripts(v) == IF v = "postgresql" THEN PgScripts ELSE MongoScripts

\* number of ObjectId() calls the script can make
Fresh(script) == Cardinality({i \in DOMAIN script.docs : script.docs[i] = "none"})

\* the dictionary that main() passes for the variant
Params(v) ==
    IF v = "postgresql"
    THEN [user |-> "postgres", password |-> "mysecretpassword",
          host |-> "localhost", port |-> "5432", dbname |-> "task_management"]
    ELSE [user |-> "", password |-> "", host |-> "localhost", port |-> "27017",
          dbname |-> "cats_db"]

\* an initializer that sets dbname in self.db_params itself: C22 fails of it
conn_params_alias(params) ==
    [conn |-> [params EXCEPT !.dbname = "postgres"],
     self |-> [params EXCEPT !.dbname = "postgres"]]

\* conn_params = self.db_params.copy(); conn_params["dbname"] = "postgres":
\* the dictionary to connect with, and self.db_params after it
conn_params(params) ==
    [conn |-> [params EXCEPT !.dbname = "postgres"], self |-> params]

\* db_params after check_database_exists, drop_database or create_database:
\* the document-store variant builds its URL from host and port and assigns
\* nothing
admin_connect(v, p) ==
    IF v = "postgresql" THEN [p EXCEPT !.self = conn_params(p.self).self] ELSE p

\* the database that the operation connects to
admin_dbname(v, p) ==
    IF v = "postgresql" THEN conn_params(p.self).conn.dbname ELSE ""

\* check_database_exists without its except clause: C11 fails of it
check_database_exists_raises(v, up, ex) ==
    IF ~up THEN "raised" ELSE IF ex THEN "true" ELSE "false"

\* check_database_exists; up: the engine accepts the connection; every
\* exception is caught and answered with False
check_database_exists(v, up, ex) ==
    IF up /\ ex THEN "true" ELSE "false"

\* drop_database that connects and drops nothing: C6 fails of it
drop_database_keeps(v, up, ex, dat, inUse) ==
    IF ~up THEN [exists |-> ex, data |-> dat, err |-> "connect", ret |-> "none"]
    ELSE [exists |-> ex, data |-> dat, err |-> "", ret |-> "none"]

\* drop_database; inUse: another session is connected to the target; err is
\* the exception that the except clause logs, ret what the caller gets
drop_database(v, up, ex, dat, inUse) ==
    IF ~up THEN [exists |-> ex, data |-> dat, err |-> "connect", ret |-> "none"]
    ELSE IF v = "postgresql" /\ ex /\ inUse
    THEN [exists |-> ex, data |-> dat, err |-> "in_use", ret |-> "none"]
    ELSE [exists |-> FALSE, data |-> {}, err |-> "", ret |-> "none"]

\* create_database that lets the engine's "already exists" through: C12
\* fails of it
create_database_raises(v, up, ex, dat) ==
    IF ~up THEN [exists |-> ex, data |-> dat, err |-> "connect", ret |-> "none"]
    ELSE IF ex THEN [exists |-> ex, data |-> dat, err |-> "exists", ret |-> "raised"]
    ELSE [exists |-> TRUE, data |-> {}, err |-> "", ret |-> "none"]

\* create_database: CREATE DATABASE / create_collection("test_collection")
create_database(v, up, ex, dat) ==
    IF ~up THEN [exists |-> ex, data |-> dat, err |-> "connect", ret |-> "none"]
    ELSE IF ex THEN [exists |-> ex, data |-> dat, err |-> "exists", ret |-> "none"]
    ELSE [exists |-> TRUE, data |-> {}, err |-> "", ret |-> "none"]

\* cursor.execute(sql_script): the statements in order, in one transaction
RECURSIVE run_sql(_, _)
run_sql(dat, stmts) ==
    IF stmts = <<>> THEN [ok |-> TRUE, data |-> dat]
    ELSE LET st == Head(stmts)
             r  == stmtRow(st)
         IN  IF st = "err" THEN [ok |-> FALSE, data |-> dat]
             ELSE IF st = "del r1" THEN run_sql(dat \ {r}, Tail(stmts))
             ELSE IF r \in dat THEN [ok |-> FALSE, data |-> dat]
             ELSE run_sql(dat \cup {r}, Tail(stmts))

\* an execute_script that commits whether or not the script ran: C20 fails
\* of it
pg_execute_script_always_commits(script, up, ex, dat) ==
    IF script.path \in {"", "None"}
    THEN [exists |-> ex, data |-> dat, outcome |-> "skipped", commits |-> 0,
          log |-> <<>>, leak |-> FALSE]
    ELSE IF ~(up /\ ex)
    THEN [exists |-> ex, data |-> dat, outcome |-> "error", commits |-> 0,
          log |-> <<"connect">>, leak |-> FALSE]
    ELSE IF script.kind \in {"nofile", "none"}
    THEN [exists |-> ex, data |-> dat, outcome |-> "error", commits |-> 1,
          log |-> <<"connect", "cursor", "open", "commit", "close">>,
          leak |-> FALSE]
    ELSE LET r == run_sql(dat, script.docs)
         IN  [exists |-> ex, data |-> r.data,
              outcome |-> IF r.ok THEN "ok" ELSE "error", commits |-> 1,
              log |-> <<"connect", "cursor", "open", "read", "execute",
                        "commit", "close">>,
              leak |-> FALSE]

\* PostgresDatabaseInitializer.execute_script; log: the calls it makes, in
\* order; leak: it returns with the connection it opened not closed
pg_execute_script(script, up, ex, dat) ==
    IF absent(script.path)
    THEN [exists |-> ex, data |-> dat, outcome |-> "skipped", commits |-> 0,
          log |-> <<>>, leak |-> FALSE]
    ELSE IF ~(up /\ ex)
    THEN [exists |-> ex, data |-> dat, outcome |-> "error", commits |-> 0,
          log |-> <<"connect">>, leak |-> FALSE]
    ELSE IF script.kind \in {"nofile", "none"}
    THEN [exists |-> ex, data |-> dat, outcome |-> "error", commits |-> 0,
          log |-> <<"connect", "cursor", "open">>, leak |-> TRUE]
    ELSE LET r == run_sql(dat, script.docs)
         IN  IF r.ok
             THEN [exists |-> ex, data |-> r.data, outcome |-> "ok", commits |-> 1,
                   log |-> <<"connect", "cursor", "open", "read", "execute",
                             "commit", "close">>,
                   leak |-> FALSE]
             ELSE [exists |-> ex, data |-> dat, outcome |-> "error", commits |-> 0,
                   log |-> <<"connect", "cursor", "open", "read", "execute">>,
                   leak |-> TRUE]

\* for doc in data: give every document its ObjectId
RECURSIVE assign_ids(_, _, _)
assign_ids(docs, oid, ids) ==
    IF docs = <<>> THEN [ok |-> TRUE, ids |-> ids, oid |-> oid]
    ELSE LET d == Head(docs)
         IN  IF d = "none"
             THEN assign_ids(Tail(docs), oid + 1, Append(ids, ObjectId_new(oid)))
             ELSE IF d \in ValidHex
             THEN assign_ids(Tail(docs), oid, Append(ids, ObjectId_of(d)))
             ELSE [ok |-> FALSE, ids |-> ids, oid |-> oid]

\* insert_many(data, ordered=False): every document whose _id is not taken yet
insert_many(ids, up, ex, dat) ==
    IF ids = <<>> \/ ~up
    THEN [exists |-> ex, data |-> dat, ok |-> FALSE]
    ELSE [exists |-> TRUE, data |-> dat \cup Range(ids),
          ok |-> Cardinality(dat \cup Range(ids)) = Cardinality(dat) + Len(ids)]

\* an execute_script that takes an array only, without wrapping a single
\* object into one: C17 fails of it
mongo_execute_script_rejects_dict(script, up, ex, dat, oid) ==
    IF script.path \in {"", "None"}
    THEN [exists |-> ex, data |-> dat, oid |-> oid, outcome |-> "skipped",
          log |-> <<>>, leak |-> FALSE]
    ELSE IF script.kind \in {"nofile", "none", "badjson"}
    THEN [exists |-> ex, data |-> dat, oid |-> oid, outcome |-> "error",
          log |-> <<"open">>, leak |-> FALSE]
    ELSE IF script.kind \in {"scalar", "dict"}
    THEN [exists |-> ex, data |-> dat, oid |-> oid, outcome |-> "unknown format",
          log |-> <<"open", "load", "client">>, leak |-> up]
    ELSE LET a == assign_ids(script.docs, oid, <<>>)
             r == insert_many(a.ids, up, ex, dat)
         IN  IF ~a.ok
             THEN [exists |-> ex, data |-> dat, oid |-> a.oid,
                   outcome |-> "insert error",
                   log |-> <<"open", "load", "client", "convert">>,
                   leak |-> up]
             ELSE [exists |-> r.exists, data |-> r.data, oid |-> a.oid,
                   outcome |-> IF r.ok THEN "ok" ELSE "insert error",
                   log |-> <<"open", "load", "client", "convert", "insert_many">>,
                   leak |-> up]

\* MongoDBInitializer.execute_script; the MongoClient it constructs is
\* never closed: leak, when the engine was there to connect to
mongo_execute_script(script, up, ex, dat, oid) ==
    IF absent(script.path)
    THEN [exists |-> ex, data |-> dat, oid |-> oid, outcome |-> "skipped",
          log |-> <<>>, leak |-> FALSE]
    ELSE IF script.kind \in {"nofile", "none"}
    THEN [exists |-> ex, data |-> dat, oid |-> oid, outcome |-> "error",
          log |-> <<"open">>, leak |-> FALSE]
    ELSE IF script.kind = "badjson"
    THEN [exists |-> ex, data |-> dat, oid |-> oid, outcome |-> "error",
          log |-> <<"open", "load">>, leak |-> FALSE]
    ELSE IF script.kind = "scalar"
    THEN [exists |-> ex, data |-> dat, oid |-> oid, outcome |-> "unknown format",
          log |-> <<"open", "load", "client">>, leak |-> up]
    ELSE LET a == assign_ids(script.docs, oid, <<>>)
             r == insert_many(a.ids, up, ex, dat)
         IN  IF ~a.ok
             THEN [exists |-> ex, data |-> dat, oid |-> a.oid,
                   outcome |-> "insert error",
                   log |-> <<"open", "load", "client", "convert">>,
                   leak |-> up]
             ELSE [exists |-> r.exists, data |-> r.data, oid |-> a.oid,
                   outcome |-> IF r.ok THEN "ok" ELSE "insert error",
                   log |-> <<"open", "load", "client", "convert", "insert_many">>,
                   leak |-> up]

\* execute_script of the variant
execute_script(v, script, up, ex, dat, oid) ==
    IF v = "postgresql"
    THEN LET r == pg_execute_script(script, up, ex, dat)
         IN  [exists |-> r.exists, data |-> r.data, oid |-> oid,
              outcome |-> r.outcome, log |-> r.log, leak |-> r.leak]
    ELSE mongo_execute_script(script, up, ex, dat, oid)

----------------------------------------------------------------------------
(* Records of what was called *)

NoCall ==
    [op |-> "", after |-> "", ret |-> "", up |-> FALSE, fault |-> "", pre |-> "",
     remove |-> FALSE, again |-> FALSE, log |-> <<>>, msg |-> "",
     leak |-> FALSE, dbname |-> "", preExists |-> FALSE, preData |-> {},
     script |-> NoScript]

NoRun ==
    [calls |-> <<>>, existsRet |-> "", answer |-> <<>>, preExists |-> FALSE,
     pre |-> {}, script |-> NoScript, outcome |-> "", started |-> "",
     ret |-> ""]

NoTask ==
    [op |-> "", ret |-> "", rows |-> {}, id |-> 0, hit |-> FALSE,
     description |-> "-", status |-> "", changed |-> FALSE, follows |-> "",
     valid |-> FALSE]

NoCat ==
    [op |-> "", follows |-> "", name |-> "", age |-> 0, feature |-> "",
     res |-> "", n |-> 0, pn |-> 0, occ |-> 0, changed |-> FALSE,
     found |-> <<>>]

\* the call c, when it went through: start_container returned true,
\* stop_container returned, drop_database or create_database reached the engine
After(c) ==
    IF \/ c.op = "start_container" /\ c.ret = "true"
       \/ c.op = "stop_container" /\ c.ret # "raised"
       \/ c.op \in {"drop_database", "create_database"} /\ c.up
    THEN c.op ELSE ""

\* check_database_exists, drop_database or create_database returns with the
\* connection it opened still open: the relational variant calls
\* conn.close() only on the path without an exception (err = ""), the
\* document-store variant never closes its MongoClient
unreleased(v, up, err) == up /\ (v = "mongodb" \/ err # "")

\* a call made now, on the current state, right after the call in last
Call(op, ret) ==
    [NoCall EXCEPT !.op = op, !.after = After(last), !.ret = ret,
                   !.pre = container, !.preExists = exists, !.preData = data]

\* the engine is reachable only while its container runs
CanReach(up) == up => container = "running"

\* what a change of the container's status does to the engine: a removed
\* container takes its data with it, a stopped one ends its sessions
EngineAfter(status) ==
    /\ exists' = IF status = "absent" THEN FALSE ELSE exists
    /\ data' = IF status = "absent" THEN {} ELSE data
    /\ tmConn' = IF status = "running" THEN tmConn ELSE FALSE

----------------------------------------------------------------------------
(* Direct calls of the initializer's operations *)

StartContainer ==
    /\ pc = "idle"
    /\ \E fault \in StartFaults, boots \in BOOLEAN :
         LET r == start_container(container, fault, boots)
         IN  /\ container' = r.status
             /\ EngineAfter(r.status)
             /\ last' = [Call("start_container", r.ret) EXCEPT
                            !.fault = IF r.ret = "raised" THEN fault ELSE "none",
                            !.log = r.log]
    /\ run' = NoRun
    /\ UNCHANGED <<db_type, db_params, nextOid, pc, catVars, taskVars>>

\* again: the call repeats the stop_container call before it, which returned
StopContainer ==
    /\ pc = "idle"
    /\ \E fault \in StopFaults, remove \in BOOLEAN :
         LET r == stop_container(container, remove, fault)
         IN  /\ container' = r.status
             /\ EngineAfter(r.status)
             /\ last' = [Call("stop_container", r.ret) EXCEPT
                            !.fault = IF r.ret = "raised" THEN fault ELSE "none",
                            !.log = r.log, !.msg = r.msg,
                            !.remove = remove,
                            !.again = /\ last.op = "stop_container"
                                      /\ last.ret = "none"
                                      /\ last.remove = remove]
    /\ run' = NoRun
    /\ UNCHANGED <<db_type, db_params, nextOid, pc, catVars, taskVars>>

CheckDatabaseExists ==
    /\ pc = "idle"
    /\ \E up \in BOOLEAN :
         /\ CanReach(up)
         /\ last' = [Call("check_database_exists",
                          check_database_exists(db_type, up, exists))
                       EXCEPT !.up = up,
                              !.leak = unreleased(db_type, up, ""),
                              !.dbname = admin_dbname(db_type, db_params)]
    /\ run' = NoRun
    /\ db_params' = admin_connect(db_type, db_params)
    /\ UNCHANGED <<db_type, container, exists, data, nextOid, tmConn, pc,
                   catVars, taskVars>>

DropDatabase ==
    /\ pc = "idle"
    /\ \E up \in BOOLEAN :
         LET r == drop_database(db_type, up, exists, data, tmConn)
         IN  /\ CanReach(up)
             /\ exists' = r.exists
             /\ data' = r.data
             /\ last' = [Call("drop_database", r.ret) EXCEPT
                            !.up = up, !.msg = r.err,
                            !.leak = unreleased(db_type, up, r.err),
                            !.dbname = admin_dbname(db_type, db_params)]
    /\ run' = NoRun
    /\ db_params' = admin_connect(db_type, db_params)
    /\ UNCHANGED <<db_type, container, nextOid, tmConn, pc, catVars, taskVars>>

CreateDatabase ==
    /\ pc = "idle"
    /\ \E up \in BOOLEAN :
         LET r == create_database(db_type, up, exists, data)
         IN  /\ CanReach(up)
             /\ exists' = r.exists
             /\ data' = r.data
             /\ last' = [Call("create_database", r.ret) EXCEPT
                            !.up = up, !.msg = r.err,
                            !.leak = unreleased(db_type, up, r.err),
                            !.dbname = admin_dbname(db_type, db_params)]
    /\ run' = NoRun
    /\ db_params' = admin_connect(db_type, db_params)
    /\ UNCHANGED <<db_type, container, nextOid, tmConn, pc, catVars, taskVars>>

ExecuteScript ==
    /\ pc = "idle"
    /\ \E up \in BOOLEAN, script \in Scripts(db_type) :
         LET r == execute_script(db_type, script, up, exists, data, nextOid)
         IN  /\ CanReach(up)
             /\ nextOid + Fresh(script) <= MaxGen
             /\ exists' = r.exists
             /\ data' = r.data
             /\ nextOid' = r.oid
             /\ last' = [Call("execute_script", "none") EXCEPT
                            !.up = up, !.msg = r.outcome, !.script = script,
                            !.log = r.log, !.leak = r.leak]
    /\ run' = NoRun
    /\ UNCHANGED <<db_type, db_params, container, tmConn, pc, catVars, taskVars>>

\* TaskManager(db_params): psycopg2.connect to the target database
TaskManagerInit ==
    /\ pc = "idle"
    /\ db_type = "postgresql"
    /\ ~tmConn
    /\ \E up \in BOOLEAN :
         /\ CanReach(up)
         /\ tmConn' = (up /\ exists)
         /\ last' = [Call("TaskManager", IF up /\ exists THEN "none" ELSE "raised")
                       EXCEPT !.up = up]
    /\ run' = NoRun
    /\ UNCHANGED <<db_type, db_params, container, exists, data, nextOid, pc, catVars, taskVars>>

\* TaskManager.__del__: the session is closed
TaskManagerDel ==
    /\ pc = "idle"
    /\ tmConn
    /\ tmConn' = FALSE
    /\ last' = Call("TaskManager.__del__", "none")
    /\ run' = NoRun
    /\ UNCHANGED <<db_type, db_params, container, exists, data, nextOid, pc, catVars, taskVars>>

----------------------------------------------------------------------------
(* DatabaseManager.initialize_database, call by call *)

InitStart ==
    /\ pc = "idle"
    /\ \E fault \in StartFaults, boots \in BOOLEAN :
         LET r == start_container(container, fault, boots)
         IN  /\ container' = r.status
             /\ EngineAfter(r.status)
             /\ pc' = IF r.ret = "true" THEN "check" ELSE "idle"
             /\ run' = [NoRun EXCEPT
                          !.calls = <<"start_container">>,
                          !.started = r.ret,
                          !.ret = IF r.ret = "true" THEN "" ELSE r.ret]
    /\ last' = NoCall
    /\ UNCHANGED <<db_type, db_params, nextOid, catVars, taskVars>>

InitCheck ==
    /\ pc = "check"
    /\ \E up \in BOOLEAN :
         LET ret == check_database_exists(db_type, up, exists)
         IN  /\ CanReach(up)
             /\ pc' = IF ret = "true" THEN "prompt" ELSE "create"
             /\ run' = [run EXCEPT
                          !.calls = Append(@, "check_database_exists"),
                          !.existsRet = ret,
                          !.preExists = exists,
                          !.pre = data]
    /\ db_params' = admin_connect(db_type, db_params)
    /\ UNCHANGED <<db_type, container, exists, data, nextOid, tmConn, last, catVars, taskVars>>

\* a run that drops and recreates whatever the operator answers: C2 fails
\* of it
InitPrompt_always_recreates ==
    /\ pc = "prompt"
    /\ \E raw \in Answers :
         /\ pc' = "drop"
         /\ run' = [run EXCEPT !.calls = Append(@, "input"),
                               !.answer = raw]
    /\ UNCHANGED <<db_type, db_params, container, exists, data, nextOid, tmConn, last,
                   catVars, taskVars>>

InitPrompt ==
    /\ pc = "prompt"
    /\ \E raw \in Answers :
         LET response == lower(strip(raw))
         IN  /\ pc' = IF response_is_yes(response) THEN "drop" ELSE "script"
             /\ run' = [run EXCEPT !.calls = Append(@, "input"),
                                   !.answer = raw]
    /\ UNCHANGED <<db_type, db_params, container, exists, data, nextOid, tmConn, last, catVars, taskVars>>

\* a run that goes from the drop straight to the script: C3 fails of it
InitDrop_without_create ==
    /\ pc = "drop"
    /\ \E up \in BOOLEAN :
         LET r == drop_database(db_type, up, exists, data, tmConn)
         IN  /\ CanReach(up)
             /\ exists' = r.exists
             /\ data' = r.data
    /\ pc' = "script"
    /\ run' = [run EXCEPT !.calls = Append(@, "drop_database")]
    /\ db_params' = admin_connect(db_type, db_params)
    /\ UNCHANGED <<db_type, container, nextOid, tmConn, last, catVars, taskVars>>

InitDrop ==
    /\ pc = "drop"
    /\ \E up \in BOOLEAN :
         LET r == drop_database(db_type, up, exists, data, tmConn)
         IN  /\ CanReach(up)
             /\ exists' = r.exists
             /\ data' = r.data
             /\ pc' = IF r.ret = "raised" THEN "idle" ELSE "create"
             /\ run' = [run EXCEPT !.calls = Append(@, "drop_database"),
                                   !.ret = IF r.ret = "raised" THEN "raised" ELSE ""]
    /\ db_params' = admin_connect(db_type, db_params)
    /\ UNCHANGED <<db_type, container, nextOid, tmConn, last, catVars, taskVars>>

InitCreate ==
    /\ pc = "create"
    /\ \E up \in BOOLEAN :
         LET r == create_database(db_type, up, exists, data)
         IN  /\ CanReach(up)
             /\ exists' = r.exists
             /\ data' = r.data
             /\ pc' = IF r.ret = "raised" THEN "idle" ELSE "script"
             /\ run' = [run EXCEPT !.calls = Append(@, "create_database"),
                                   !.ret = IF r.ret = "raised" THEN "raised" ELSE ""]
    /\ db_params' = admin_connect(db_type, db_params)
    /\ UNCHANGED <<db_type, container, nextOid, tmConn, last, catVars, taskVars>>

\* a run that returns False when the script failed: C24 fails of it
InitScript_reports_script ==
    /\ pc = "script"
    /\ \E up \in BOOLEAN, script \in Scripts(db_type) :
         LET r == execute_script(db_type, script, up, exists, data, nextOid)
         IN  /\ CanReach(up)
             /\ nextOid + Fresh(script) <= MaxGen
             /\ exists' = r.exists
             /\ data' = r.data
             /\ nextOid' = r.oid
             /\ run' = [run EXCEPT !.calls = Append(@, "execute_script"),
                                   !.script = script,
                                   !.outcome = r.outcome,
                                   !.ret = IF r.outcome = "error" THEN "false"
                                           ELSE "true"]
    /\ pc' = "idle"
    /\ UNCHANGED <<db_type, db_params, container, tmConn, last, catVars, taskVars>>

\* script_path is an argument of initialize_database; nothing reads it before
\* this call, so it is drawn here; the run returns True
InitScript ==
    /\ pc = "script"
    /\ \E up \in BOOLEAN, script \in Scripts(db_type) :
         LET r == execute_script(db_type, script, up, exists, data, nextOid)
         IN  /\ CanReach(up)
             /\ nextOid + Fresh(script) <= MaxGen
             /\ exists' = r.exists
             /\ data' = r.data
             /\ nextOid' = r.oid
             /\ run' = [run EXCEPT !.calls = Append(@, "execute_script"),
                                   !.script = script,
                                   !.outcome = r.outcome,
                                   !.ret = "true"]
    /\ pc' = "idle"
    /\ UNCHANGED <<db_type, db_params, container, tmConn, last, catVars, taskVars>>

----------------------------------------------------------------------------
(* Specification of the provisioning side *)

Init ==
    /\ db_type \in Variants
    /\ db_params = [caller |-> Params(db_type), self |-> Params(db_type)]
    /\ container = "absent"
    /\ exists = FALSE
    /\ data = {}
    /\ nextOid = 0
    /\ tmConn = FALSE
    /\ pc = "idle"
    /\ run = NoRun
    /\ last = NoCall
    /\ cats = <<>>
    /\ catLast = NoCat
    /\ nUsers = 0
    /\ tasks = <<>>
    /\ nextTask = 0
    /\ aborted = FALSE
    /\ tmLast = NoTask

Next ==
    \/ StartContainer
    \/ StopContainer
    \/ CheckDatabaseExists
    \/ DropDatabase
    \/ CreateDatabase
    \/ ExecuteScript
    \/ TaskManagerInit
    \/ TaskManagerDel
    \/ InitStart
    \/ InitCheck
    \/ InitPrompt
    \/ InitDrop
    \/ InitCreate
    \/ InitScript

Spec == Init /\ [][Next]_vars

----------------------------------------------------------------------------
(* CatManager *)

Names == {"barsik", "murzik"}

Ages == {3, 4}

FeatureVals == {"orange"}

\* the features argument of create_cat: a list, or a value that is not one
FeatureArgs ==
    {[arr |-> TRUE, items |-> s] :
        s \in {<<>>, <<"orange", "lazy">>, <<"orange", "lazy", "orange">>}}
    \cup {[arr |-> FALSE, items |-> <<>>]}

\* position of the first document with the name, 0 when there is none:
\* the document that find_one, update_one and delete_one act on
first_match(cs, name) ==
    IF \E i \in DOMAIN cs : cs[i].name = name
    THEN CHOOSE i \in DOMAIN cs :
            /\ cs[i].name = name
            /\ \A j \in DOMAIN cs : cs[j].name = name => i <= j
    ELSE 0

Matching(cs, name) == Cardinality({i \in DOMAIN cs : cs[i].name = name})

Occurrences(items, f) == Cardinality({i \in DOMAIN items : items[i] = f})

\* delete_one that removes the first document whatever its name: C10 fails
\* of it
Remove_first(cs, i) == Tail(cs)

\* delete_one: the collection without its i-th document
Remove(cs, i) == SubSeq(cs, 1, i - 1) \o SubSeq(cs, i + 1, Len(cs))

\* $push in place of $addToSet: C8 fails of it
addToSet_push(items, f) == Append(items, f)

\* {"$addToSet": {"features": feature}} on an array
addToSet(items, f) == IF f \in Range(items) THEN items ELSE Append(items, f)

\* the call in catLast, when it reported success for the same name and this
\* call is the lookup after an update or a delete, or the same
\* add_feature_to_cat again
Follows(op, name, feature) ==
    IF /\ catLast.res = "ok"
       /\ catLast.name = name
       /\ \/ /\ op = "read_cat_by_name"
             /\ catLast.op \in {"update_cat_age", "delete_cat_by_name"}
          \/ /\ op = "add_feature_to_cat"
             /\ catLast.op = op
             /\ catLast.feature = feature
    THEN catLast.op ELSE ""

\* a CatManager call made now, right after the call in catLast; n counts the
\* documents with the name before the call, pn those before the call it follows
CatCall(op, name, res) ==
    [NoCat EXCEPT !.op = op, !.follows = Follows(op, name, ""), !.name = name,
                  !.res = res, !.n = Matching(cats, name),
                  !.pn = IF Follows(op, name, "") = "" THEN 0 ELSE catLast.n]

\* err: the driver raises a PyMongoError
create_cat ==
    /\ Len(cats) < MaxCats
    /\ \E name \in Names, age \in Ages, features \in FeatureArgs, err \in BOOLEAN :
         /\ cats' = IF err THEN cats
                    ELSE Append(cats, [name |-> name, age |-> age,
                                       features |-> features])
         /\ catLast' = [CatCall("create_cat", name, IF err THEN "error" ELSE "ok")
                          EXCEPT !.age = age, !.changed = ~err]
    /\ UNCHANGED <<provVars, taskVars>>

read_all_cats ==
    /\ \E err \in BOOLEAN :
         catLast' = [CatCall("read_all_cats", "", IF err THEN "error" ELSE "ok")
                       EXCEPT !.found = IF err THEN <<>> ELSE cats,
                              !.n = IF err THEN 0 ELSE Len(cats)]
    /\ UNCHANGED <<provVars, cats, taskVars>>

read_cat_by_name ==
    /\ \E name \in Names, err \in BOOLEAN :
         LET i == first_match(cats, name)
         IN  catLast' =
               [CatCall("read_cat_by_name", name,
                        IF err THEN "error" ELSE IF i = 0 THEN "not found" ELSE "ok")
                  EXCEPT !.found = IF err \/ i = 0 THEN <<>> ELSE <<cats[i]>>,
                         !.age = IF Follows("read_cat_by_name", name, "") =
                                        "update_cat_age"
                                  THEN catLast.age ELSE 0]
    /\ UNCHANGED <<provVars, cats, taskVars>>

update_cat_age ==
    /\ \E name \in Names, new_age \in Ages, err \in BOOLEAN :
         LET i == first_match(cats, name)
         IN  /\ cats' = IF err \/ i = 0 THEN cats
                        ELSE [cats EXCEPT ![i].age = new_age]
             /\ catLast' =
                  [CatCall("update_cat_age", name,
                           IF err THEN "error" ELSE IF i = 0 THEN "not found" ELSE "ok")
                     EXCEPT !.age = new_age, !.changed = cats' # cats]
    /\ UNCHANGED <<provVars, taskVars>>

\* $addToSet on a field that is not an array is a write error; occ counts the
\* feature in the document's list before the first of a series of equal calls
add_feature_to_cat ==
    /\ \E name \in Names, feature \in FeatureVals, err \in BOOLEAN :
         LET i == first_match(cats, name)
             fails == err \/ (i # 0 /\ ~cats[i].features.arr)
             again == Follows("add_feature_to_cat", name, feature)
         IN  /\ cats' = IF fails \/ i = 0 THEN cats
                        ELSE [cats EXCEPT ![i].features.items = addToSet(@, feature)]
             /\ catLast' =
                  [CatCall("add_feature_to_cat", name,
                           IF fails THEN "error" ELSE IF i = 0 THEN "not found" ELSE "ok")
                     EXCEPT !.feature = feature, !.changed = cats' # cats,
                            !.follows = again,
                            !.pn = IF again = "" THEN 0 ELSE catLast.n,
                            !.occ = IF again # "" THEN catLast.occ
                                    ELSE IF i = 0 THEN 0
                                    ELSE Occurrences(cats[i].features.items, feature)]
    /\ UNCHANGED <<provVars, taskVars>>

delete_cat_by_name ==
    /\ \E name \in Names, err \in BOOLEAN :
         LET i == first_match(cats, name)
         IN  /\ cats' = IF err \/ i = 0 THEN cats ELSE Remove(cats, i)
             /\ catLast' =
                  [CatCall("delete_cat_by_name", name,
                           IF err THEN "error" ELSE IF i = 0 THEN "not found" ELSE "ok")
                     EXCEPT !.changed = cats' # cats]
    /\ UNCHANGED <<provVars, taskVars>>

delete_all_cats ==
    /\ \E err \in BOOLEAN :
         /\ cats' = IF err THEN cats ELSE <<>>
         /\ catLast' = [CatCall("delete_all_cats", "", IF err THEN "error" ELSE "ok")
                          EXCEPT !.n = IF err THEN 0 ELSE Len(cats),
                                 !.changed = cats' # cats]
    /\ UNCHANGED <<provVars, taskVars>>

NextCat ==
    \/ create_cat
    \/ read_all_cats
    \/ read_cat_by_name
    \/ update_cat_age
    \/ add_feature_to_cat
    \/ delete_cat_by_name
    \/ delete_all_cats

InitCat == Init /\ db_type = "mongodb"

SpecCat == InitCat /\ [][NextCat]_vars

----------------------------------------------------------------------------
(* TaskManager: one psycopg2 session on the seeded task_management database. *)
(* The columns fullname, email, title and created_at are not modelled, nor   *)
(* are the reports that read only them.                                      *)

NULL == 0

\* SELECT id FROM status WHERE name = %s, on the three seeded rows
status_id(name) ==
    CASE name = "new" -> 1
      [] name = "in progress" -> 2
      [] name = "completed" -> 3
      [] OTHER -> NULL

\* status names that a caller passes; "archived" is not a row of status
StatusArgs == {"new", "completed", "archived"}

\* user ids that a caller passes: None, a row of users or not, and 9, which
\* is never one
UserArgs == {NULL, 1, 9}

\* description arguments: None, the empty string, a text
DescArgs == {"None", "", "text"}

\* a driver that sends None as the empty string: C21 fails of it
adapt_empty(description) == IF description = "None" THEN "" ELSE description

\* psycopg2's adaptation of the parameter: None becomes SQL NULL, written
\* "NULL" here, and a str is sent as it is
adapt(description) == IF description = "None" THEN "NULL" ELSE description

TaskIds == 1..MaxTasks

\* cursor.execute raises: the engine fails (err), or the session is in a
\* failed transaction, which nothing in TaskManager rolls back
execute_fails(err) == err \/ aborted

\* REFERENCES users(id): a user_id that is neither NULL nor a row of users
fk_violation(user_id) == user_id # NULL /\ user_id \notin 1..nUsers

Without(ts, id) == [t \in DOMAIN ts \ {id} |-> ts[t]]

\* a TaskManager call made now, right after the call in tmLast; valid: the
\* engine is there and the arguments break no constraint; follows: the write
\* before it that returned False
TaskCall(op, valid) ==
    [NoTask EXCEPT !.op = op, !.valid = valid,
                   !.follows = IF tmLast.ret = "false" THEN tmLast.op ELSE ""]

\* a read: cursor.execute(...); return self._fetch_all_as_dicts(), with no
\* try around it
Read(op, err, rows) ==
    /\ aborted' = execute_fails(err)
    /\ tmLast' = [TaskCall(op, ~err) EXCEPT
                    !.ret = IF execute_fails(err) THEN "raised" ELSE "rows",
                    !.rows = IF execute_fails(err) THEN {} ELSE rows]
    /\ UNCHANGED <<nUsers, tasks, nextTask>>

\* a write: try: cursor.execute(...); conn.commit(); return True
\* except Exception: return False
TryWrite(call, fails, newTasks) ==
    /\ tasks' = IF fails THEN tasks ELSE newTasks
    /\ aborted' = fails
    /\ tmLast' = [call EXCEPT !.ret = IF fails THEN "false" ELSE "true",
                              !.changed = ~fails /\ newTasks # tasks]

\* num_users = 0 executes nothing and commits, which ends a failed
\* transaction; an error in the loop leaves the method as an exception
create_users ==
    /\ \E num_users \in 0..MaxUsers, err \in BOOLEAN :
         LET fails == num_users > 0 /\ execute_fails(err)
         IN  /\ nUsers + num_users <= MaxUsers
             /\ nUsers' = IF fails THEN nUsers ELSE nUsers + num_users
             /\ aborted' = fails
             /\ tmLast' = [TaskCall("create_users", ~err) EXCEPT
                             !.ret = IF fails THEN "raised" ELSE "ids",
                             !.rows = IF fails THEN {}
                                      ELSE (nUsers + 1)..(nUsers + num_users)]
    /\ UNCHANGED <<provVars, catVars, tasks, nextTask>>

\* random.choice(user_ids) raises IndexError on an empty list; status_id,
\* user_id and description are the random draws
create_tasks ==
    /\ \E user_ids \in {<<>>, <<1>>, <<9>>}, num_tasks \in 0..1,
          st \in {1, 3}, description \in {"None", "text"}, err \in BOOLEAN :
         /\ nextTask + num_tasks <= MaxTasks
         /\ IF num_tasks = 0
            THEN /\ aborted' = FALSE
                 /\ tmLast' = [TaskCall("create_tasks", TRUE) EXCEPT !.ret = "none"]
                 /\ UNCHANGED <<tasks, nextTask>>
            ELSE IF user_ids = <<>>
            THEN /\ tmLast' = [TaskCall("create_tasks", FALSE) EXCEPT
                                 !.ret = "raised"]
                 /\ UNCHANGED <<tasks, nextTask, aborted>>
            ELSE LET user_id == user_ids[1]
                     fails   == execute_fails(err) \/ fk_violation(user_id)
                 IN  /\ nextTask' = IF execute_fails(err) THEN nextTask
                                    ELSE nextTask + 1
                     /\ tasks' = IF fails THEN tasks
                                 ELSE tasks @@ (nextTask + 1 :>
                                        [status_id |-> st, user_id |-> user_id,
                                         description |-> adapt(description)])
                     /\ aborted' = fails
                     /\ tmLast' = [TaskCall("create_tasks",
                                            ~err /\ ~fk_violation(user_id)) EXCEPT
                                     !.ret = IF fails THEN "raised" ELSE "none",
                                     !.changed = ~fails]
    /\ UNCHANGED <<provVars, catVars, nUsers>>

\* JOIN status: a task whose status_id is NULL is not in the result
get_user_tasks ==
    /\ \E user_id \in UserArgs, err \in BOOLEAN :
         Read("get_user_tasks", err,
              {t \in DOMAIN tasks : /\ user_id # NULL
                                    /\ tasks[t].user_id = user_id
                                    /\ tasks[t].status_id # NULL})
    /\ UNCHANGED <<provVars, catVars>>

get_tasks_by_status ==
    /\ \E status_name \in StatusArgs, err \in BOOLEAN :
         Read("get_tasks_by_status", err,
              {t \in DOMAIN tasks : /\ status_id(status_name) # NULL
                                    /\ tasks[t].status_id = status_id(status_name)})
    /\ UNCHANGED <<provVars, catVars>>

\* an unknown status name sets status_id to NULL; the UPDATE of a task_id
\* that is no row succeeds and changes nothing
update_task_status ==
    /\ \E task_id \in TaskIds, new_status \in StatusArgs, err \in BOOLEAN :
         TryWrite([TaskCall("update_task_status", ~err) EXCEPT
                     !.id = task_id, !.hit = task_id \in DOMAIN tasks,
                     !.status = new_status],
                  execute_fails(err),
                  IF task_id \in DOMAIN tasks
                  THEN [tasks EXCEPT ![task_id].status_id = status_id(new_status)]
                  ELSE tasks)
    /\ UNCHANGED <<provVars, catVars, nUsers, nextTask>>

\* u.id NOT IN (SELECT DISTINCT user_id FROM tasks): no row at all once a
\* task has user_id NULL
get_users_without_tasks ==
    /\ \E err \in BOOLEAN :
         Read("get_users_without_tasks", err,
              IF \E t \in DOMAIN tasks : tasks[t].user_id = NULL THEN {}
              ELSE {u \in 1..nUsers : \A t \in DOMAIN tasks : tasks[t].user_id # u})
    /\ UNCHANGED <<provVars, catVars>>

\* the sequence is advanced before the foreign key is checked
add_task ==
    /\ \E description \in DescArgs, status \in StatusArgs, user_id \in UserArgs,
          err \in BOOLEAN :
         /\ nextTask < MaxTasks
         /\ nextTask' = IF execute_fails(err) THEN nextTask ELSE nextTask + 1
         /\ TryWrite([TaskCall("add_task", ~err /\ ~fk_violation(user_id)) EXCEPT
                        !.id = nextTask + 1, !.description = description,
                        !.status = status],
                     execute_fails(err) \/ fk_violation(user_id),
                     tasks @@ (nextTask + 1 :>
                        [status_id |-> status_id(status), user_id |-> user_id,
                         description |-> adapt(description)]))
    /\ UNCHANGED <<provVars, catVars, nUsers>>

get_incomplete_tasks ==
    /\ \E err \in BOOLEAN :
         Read("get_incomplete_tasks", err,
              {t \in DOMAIN tasks : /\ tasks[t].status_id # NULL
                                    /\ tasks[t].status_id # status_id("completed")})
    /\ UNCHANGED <<provVars, catVars>>

delete_task ==
    /\ \E task_id \in TaskIds, err \in BOOLEAN :
         TryWrite([TaskCall("delete_task", ~err) EXCEPT
                     !.id = task_id, !.hit = task_id \in DOMAIN tasks],
                  execute_fails(err), Without(tasks, task_id))
    /\ UNCHANGED <<provVars, catVars, nUsers, nextTask>>

\* fullname is not modelled: the UPDATE changes no modelled column
update_user_name ==
    /\ \E user_id \in UserArgs, err \in BOOLEAN :
         TryWrite(TaskCall("update_user_name", ~err), execute_fails(err), tasks)
    /\ UNCHANGED <<provVars, catVars, nUsers, nextTask>>

get_tasks_without_description ==
    /\ \E err \in BOOLEAN :
         Read("get_tasks_without_description", err,
              {t \in DOMAIN tasks : tasks[t].description = "NULL"})
    /\ UNCHANGED <<provVars, catVars>>

NextTask ==
    \/ create_users
    \/ create_tasks
    \/ get_user_tasks
    \/ get_tasks_by_status
    \/ update_task_status
    \/ get_users_without_tasks
    \/ add_task
    \/ get_incomplete_tasks
    \/ delete_task
    \/ update_user_name
    \/ get_tasks_without_description

\* the container runs, the target is seeded and a TaskManager is connected
InitTask ==
    /\ db_type = "postgresql"
    /\ db_params = [caller |-> Params(db_type), self |-> Params(db_type)]
    /\ container = "running"
    /\ exists = TRUE
    /\ data = {}
    /\ nextOid = 0
    /\ tmConn = TRUE
    /\ pc = "idle"
    /\ run = NoRun
    /\ last = NoCall
    /\ cats = <<>>
    /\ catLast = NoCat
    /\ nUsers = 0
    /\ tasks = <<>>
    /\ nextTask = 0
    /\ aborted = FALSE
    /\ tmLast = NoTask

SpecTask == InitTask /\ [][NextTask]_vars

----------------------------------------------------------------------------
(* Properties *)

Yes == <<"y", "e", "s">>

Called(op) == op \in Range(run.calls)

\* the operator was asked and did not answer "yes"
Declined == Called("input") /\ lower(strip(run.answer)) # Yes

\* C1: in initialize_database, drop_database is called only in a run in which
\* check_database_exists returned true and the operator's answer, stripped
\* and lower-cased, is exactly "yes"; when the target exists and the answer
\* is anything else, the run calls neither drop_database nor create_database.
C1_DropOnlyOnYes ==
    /\ Called("drop_database") =>
          /\ run.existsRet = "true"
          /\ Called("input")
          /\ lower(strip(run.answer)) = Yes
    /\ (run.existsRet = "true" /\ Declined) =>
          /\ ~Called("drop_database")
          /\ ~Called("create_database")

C1_Witness ==
    /\ run.ret = "true"
    /\ Called("drop_database")
    /\ run.answer = <<" ", "Y", "e", "S", "\t">>

ShapeRecreate ==
    <<"start_container", "check_database_exists", "input", "drop_database",
      "create_database", "execute_script">>

ShapeCreate ==
    <<"start_container", "check_database_exists", "create_database",
      "execute_script">>

ShapeDeclined ==
    <<"start_container", "check_database_exists", "input", "execute_script">>

\* C3: with the container running, initialize_database calls exists, then on
\* an existing target and the answer "yes" drop followed by create, on a
\* target that does not exist create alone (no prompt, no drop), and then
\* execute_script exactly once, as the last call; create never comes before
\* drop and the script never before create.
C3_FixedOrder ==
    /\ \E shape \in {ShapeRecreate, ShapeCreate, ShapeDeclined} :
          IsPrefix(run.calls, shape)
    /\ run.ret = "true" =>
          run.calls = IF run.existsRet = "false" THEN ShapeCreate
                      ELSE IF Declined THEN ShapeDeclined
                      ELSE ShapeRecreate
    /\ pc # "idle" => run.ret = ""

C3_Witness ==
    /\ run.ret = "true"
    /\ run.calls = ShapeRecreate
    /\ run.script.path # ""

\* C4: a start_container call right after one that returned true finds the
\* process running, returns true (when the SDK answers) and calls neither
\* containers.run nor start; no call creates a container while one with the
\* name exists, and a container that is present and not running is started,
\* not created again.
C4_StartIdempotent ==
    last.op = "start_container" =>
        /\ last.after = "start_container" =>
              /\ last.pre = "running"
              /\ "run" \notin Range(last.log)
              /\ "start" \notin Range(last.log)
              /\ last.fault = "none" => last.ret = "true"
        /\ "run" \in Range(last.log) => last.pre = "absent"
        /\ (last.pre \in {"created", "exited"} /\ last.fault \notin {"from_env", "get"}) =>
              /\ "start" \in Range(last.log)
              /\ "run" \notin Range(last.log)

C4_Witness ==
    /\ last.op = "start_container"
    /\ last.after = "start_container"
    /\ last.ret = "true"
    /\ container = "running"

\* C5: start_container never throws to its caller: on every failure of the
\* container SDK it returns false.
C5_StartNeverThrows ==
    /\ last.op = "start_container" => last.ret # "raised"
    /\ run.ret # "raised"

\* C6 as stated: with the engine reachable, check_database_exists right after
\* create_database returns true, and right after drop_database returns false.
C6_RoundTrip ==
    (last.op = "check_database_exists" /\ last.up) =>
        /\ last.after = "create_database" => last.ret = "true"
        /\ last.after = "drop_database" => last.ret = "false"

\* C6: with the engine reachable, check_database_exists right after
\* create_database returns true; right after drop_database it returns false,
\* unless the variant is the relational one and another session is connected
\* to the target: that drop is refused, and the target still exists.
C6_RoundTripUnlessInUse ==
    (last.op = "check_database_exists" /\ last.up) =>
        /\ last.after = "create_database" => last.ret = "true"
        /\ last.after = "drop_database" =>
              (last.ret = "false" <=> ~(db_type = "postgresql" /\ tmConn))

C6_Witness ==
    /\ last.op = "check_database_exists"
    /\ last.up
    /\ last.after = "drop_database"
    /\ last.ret = "false"
    /\ container = "running"

\* C7: MongoDBInitializer.execute_script, on a script of N objects none of
\* which has an _id and with the engine reachable, adds exactly N documents
\* to the collection: the N generated identifiers differ from each other and
\* from those already there.
C7_FreshDocuments ==
    (/\ last.op = "execute_script"
     /\ db_type = "mongodb"
     /\ last.up
     /\ last.script.kind \in {"dict", "list"}
     /\ \A i \in DOMAIN last.script.docs : last.script.docs[i] = "none") =>
        /\ last.preData \subseteq data
        /\ Cardinality(data \ last.preData) = Len(last.script.docs)

C7_Witness ==
    /\ last.op = "execute_script"
    /\ db_type = "mongodb"
    /\ last.up
    /\ last.script.docs = <<"none", "none">>
    /\ last.preData # {}
    /\ Cardinality(data) = Cardinality(last.preData) + 2

\* the features list of the document that a call on catLast.name acts on
FeaturesNow == cats[first_match(cats, catLast.name)].features.items

\* C8 as stated: add_feature_to_cat called twice with the same name and
\* feature leaves exactly one occurrence of the value in the record's
\* features, and the second call changes nothing.
C8_AddTwiceOnce ==
    (/\ catLast.op = "add_feature_to_cat"
     /\ catLast.follows = "add_feature_to_cat"
     /\ catLast.res = "ok") =>
        /\ ~catLast.changed
        /\ Occurrences(FeaturesNow, catLast.feature) = 1

\* C8: add_feature_to_cat called twice with the same name and feature: the
\* second call changes nothing, and the value occurs once in the record's
\* features when the list held it at most once before the first call, and
\* as often as before when create_cat had stored it several times.
C8_AddTwiceSetSemantics ==
    (/\ catLast.op = "add_feature_to_cat"
     /\ catLast.follows = "add_feature_to_cat"
     /\ catLast.res = "ok") =>
        /\ ~catLast.changed
        /\ Occurrences(FeaturesNow, catLast.feature) =
              IF catLast.occ = 0 THEN 1 ELSE catLast.occ

C8_Witness ==
    /\ catLast.op = "add_feature_to_cat"
    /\ catLast.follows = "add_feature_to_cat"
    /\ catLast.res = "ok"
    /\ catLast.occ = 0
    /\ Occurrences(FeaturesNow, catLast.feature) = 1

\* C9: stop_container, with either value of remove, while no container with
\* the name exists (and the SDK answers), reports not-found, does not raise,
\* and stops, removes and creates nothing.
C9_TeardownWhenAbsent ==
    (last.op = "stop_container" /\ last.pre = "absent" /\ last.fault = "none") =>
        /\ last.ret = "none"
        /\ last.msg = "not found"
        /\ Range(last.log) \cap {"stop", "remove", "run", "start"} = {}
        /\ container = "absent"

C9_Witness ==
    /\ last.op = "stop_container"
    /\ last.pre = "absent"
    /\ last.remove
    /\ last.msg = "not found"

\* C10 as stated: read_cat_by_name right after update_cat_age(name, a)
\* returns a record whose age is a, and right after delete_cat_by_name(name)
\* reported success it reports not-found.
C10_UpdateDeleteLookup ==
    (catLast.op = "read_cat_by_name" /\ catLast.res # "error") =>
        /\ catLast.follows = "update_cat_age" =>
              /\ catLast.res = "ok"
              /\ catLast.found[1].age = catLast.age
        /\ catLast.follows = "delete_cat_by_name" => catLast.res = "not found"

\* C10: read_cat_by_name right after update_cat_age(name, a) returns a
\* record whose age is a; delete_cat_by_name(name) that reports success has
\* removed exactly one record of that name, and the read_cat_by_name(name)
\* after it reports not-found if and only if that was the only record with
\* the name.
C10_UpdateDeleteOne ==
    (catLast.op = "read_cat_by_name" /\ catLast.res # "error") =>
        /\ catLast.follows = "update_cat_age" =>
              /\ catLast.res = "ok"
              /\ catLast.found[1].age = catLast.age
        /\ catLast.follows = "delete_cat_by_name" =>
              /\ catLast.n = catLast.pn - 1
              /\ catLast.res = "not found" <=> catLast.pn = 1

C10_Witness ==
    /\ catLast.op = "read_cat_by_name"
    /\ catLast.follows = "delete_cat_by_name"
    /\ catLast.res = "not found"
    /\ catLast.pn = 1
    /\ cats # <<>>

\* C11: check_database_exists does not raise; it returns false whenever the
\* connection to the engine fails, and returns true only when the engine was
\* reached and the target was present, in a direct call and in a run of
\* initialize_database alike.
C11_ExistsFalseOnFailure ==
    /\ last.op = "check_database_exists" =>
          /\ last.ret \in {"true", "false"}
          /\ ~last.up => last.ret = "false"
          /\ last.ret = "true" => (last.up /\ last.preExists)
    /\ Called("check_database_exists") =>
          /\ run.existsRet \in {"true", "false"}
          /\ run.existsRet = "true" => run.preExists

C11_Witness ==
    /\ last.op = "check_database_exists"
    /\ ~last.up
    /\ last.preExists
    /\ last.ret = "false"

\* C12: drop_database and create_database never raise: on a connection
\* failure, on a target that already exists and on a target in use they
\* return normally, and no run of initialize_database ends with an exception
\* out of either of them.
C12_DropCreateNeverRaise ==
    /\ last.op \in {"drop_database", "create_database"} => last.ret = "none"
    /\ run.ret = "raised" =>
          run.calls[Len(run.calls)] \notin {"drop_database", "create_database"}

C12_Witness ==
    /\ last.op = "create_database"
    /\ last.up
    /\ last.msg = "exists"
    /\ last.ret = "none"

\* C13: execute_script called with an absent script path (the empty string
\* or None) is a no-op for both variants: it makes no call at all (no
\* connection, no file), and the target and its contents are as before.
C13_NoScriptNoOp ==
    /\ (last.op = "execute_script" /\ last.script.path \in {"", "None"}) =>
          /\ last.log = <<>>
          /\ last.msg = "skipped"
          /\ exists = last.preExists
          /\ data = last.preData
    /\ (run.ret = "true" /\ run.script.path \in {"", "None"}) =>
          run.outcome = "skipped"

C13_Witness ==
    /\ last.op = "execute_script"
    /\ last.script.path = "None"
    /\ last.up
    /\ last.msg = "skipped"
    /\ data # {}

\* C14: stop_container(remove), when the SDK answers, returns with the
\* container not running; a container that existed is gone afterwards if and
\* only if remove is true (also when it was already stopped), and with
\* remove false it is still there, stopped.  The same call made a second
\* time does not raise, stops and removes nothing, and leaves the state the
\* first call left.
C14_StopAndRepeat ==
    (last.op = "stop_container" /\ last.fault = "none") =>
        /\ last.ret = "none"
        /\ container # "running"
        /\ last.pre # "absent" => (container = "absent" <=> last.remove)
        /\ ~last.remove =>
              container = IF last.pre = "running" THEN "exited" ELSE last.pre
        /\ last.again =>
              /\ container = last.pre
              /\ Range(last.log) \cap {"stop", "remove"} = {}

C14_Witness ==
    /\ last.op = "stop_container"
    /\ last.again
    /\ last.remove
    /\ last.ret = "none"
    /\ last.pre = "absent"
    /\ db_type = "postgresql"

\* C15: a start_container call that created or started the container and
\* returned has slept once, after containers.run / start and right before
\* the reload that reads the status it returns; a call that found the
\* container running returns without sleeping.
C15_SettleAfterStart ==
    (last.op = "start_container" /\ last.ret \in {"true", "false"}) =>
        LET log   == last.log
            acted == {i \in DOMAIN log : log[i] \in {"run", "start"}}
            slept == {i \in DOMAIN log : log[i] = "sleep"}
        IN  /\ log[Len(log)] = "reload"
            /\ acted # {} =>
                  /\ slept = {Len(log) - 1}
                  /\ \A i \in acted : i < Len(log) - 1
            /\ acted = {} <=> last.pre = "running"
            /\ last.pre = "running" => slept = {}

C15_Witness ==
    /\ last.op = "start_container"
    /\ last.pre = "exited"
    /\ last.ret = "true"
    /\ last.log = <<"from_env", "get", "start", "sleep", "reload">>

\* C16: no operation of TaskManager ends with an exception: on an engine
\* error each returns its sentinel.
C16_FacadeCatchesErrors == tmLast.ret # "raised"

\* the identifiers that the objects of the script carry, converted
GivenIds(docs) ==
    {ObjectId_of(docs[i]) : i \in {j \in DOMAIN docs : docs[j] \in ValidHex}}

\* C17: MongoDBInitializer.execute_script, with the engine reachable, takes
\* a script that is one object or an array of objects whose _id values,
\* where present, are convertible: afterwards the collection holds what it
\* held, the ObjectId of every _id given, and one generated identifier for
\* every object without _id; that is one new document per object when the
\* given identifiers differ from each other and from those already there.
C17_ScriptDocuments ==
    (/\ last.op = "execute_script"
     /\ db_type = "mongodb"
     /\ last.up
     /\ last.script.kind \in {"dict", "list"}
     /\ \A i \in DOMAIN last.script.docs :
           last.script.docs[i] \in ValidHex \cup {"none"}) =>
        LET docs  == last.script.docs
            given == GivenIds(docs)
            added == data \ last.preData
        IN  /\ last.preData \subseteq data
            /\ given \subseteq data
            /\ \A x \in added \ given : x[1] = "gen"
            /\ Cardinality(added \ given) = Fresh(last.script)
            /\ (/\ given \cap last.preData = {}
                /\ Cardinality(given) + Fresh(last.script) = Len(docs)) =>
                  Cardinality(added) = Len(docs)

C17_Witness ==
    /\ last.op = "execute_script"
    /\ db_type = "mongodb"
    /\ last.up
    /\ last.script.kind = "dict"
    /\ last.script.docs = <<"A1">>
    /\ <<"hex", "a1">> \in data \ last.preData
    /\ last.preData # {}

\* C18: in MongoDBInitializer.execute_script, with the engine reachable, an
\* object that fails (its _id is taken already, or cannot be converted) does
\* not keep the others out: afterwards the collection holds the ObjectId of
\* every convertible _id of the script and one generated identifier for
\* every object without _id, wherever the failing object stands in the array.
C18_BadDocumentDoesNotBlock ==
    (/\ last.op = "execute_script"
     /\ db_type = "mongodb"
     /\ last.up
     /\ last.script.kind \in {"dict", "list"}) =>
        /\ GivenIds(last.script.docs) \subseteq data
        /\ Cardinality({x \in data \ last.preData : x[1] = "gen"}) =
              Fresh(last.script)

\* C19: no provisioning operation returns with a connection that it opened
\* still open, on the error paths as on the others.
C19_ConnectionsReleased == ~last.leak

\* C20: PostgresDatabaseInitializer.execute_script connects at most once and
\* commits at most once; it commits exactly when the script was executed
\* without error, after the execute; when the connection, the file or the
\* script fails there is no commit and the target's contents are as before.
C20_OneCommit ==
    (last.op = "execute_script" /\ db_type = "postgresql") =>
        LET log   == last.log
            at(x) == {i \in DOMAIN log : log[i] = x}
        IN  /\ Cardinality(at("connect")) <= 1
            /\ Cardinality(at("commit")) <= 1
            /\ last.msg = "ok" <=> at("commit") # {}
            /\ \A c \in at("commit") : \E e \in at("execute") : e < c
            /\ last.msg # "ok" => data = last.preData

C20_Witness ==
    /\ last.op = "execute_script"
    /\ db_type = "postgresql"
    /\ last.msg = "ok"
    /\ Len(last.script.docs) = 2
    /\ "commit" \in Range(last.log)
    /\ data # last.preData

\* C21: add_task with description None stores SQL NULL, and with the empty
\* string stores the empty string; get_tasks_without_description returns
\* exactly the tasks whose description is NULL, so none whose description is
\* the empty string.
C21_AbsentDescriptionIsNull ==
    /\ (tmLast.op = "add_task" /\ tmLast.ret = "true") =>
          /\ tmLast.id \in DOMAIN tasks
          /\ tmLast.description = "None" <=> tasks[tmLast.id].description = "NULL"
          /\ tmLast.description = "" => tasks[tmLast.id].description = ""
    /\ (tmLast.op = "get_tasks_without_description" /\ tmLast.ret = "rows") =>
          /\ tmLast.rows = {t \in DOMAIN tasks : tasks[t].description = "NULL"}
          /\ \A t \in tmLast.rows : tasks[t].description # ""

C21_Witness ==
    /\ tmLast.op = "get_tasks_without_description"
    /\ tmLast.ret = "rows"
    /\ tmLast.rows = {1}
    /\ tasks[1].description = "NULL"

\* C22: in every state that the provisioning operations reach, the
\* initializer's db_params and the caller's dictionary are what they were
\* at construction, target database name included; check_database_exists,
\* drop_database and create_database of the relational variant connect to
\* the database "postgres".
C22_ParamsUnchanged ==
    /\ db_params.self = Params(db_type)
    /\ db_params.caller = Params(db_type)
    /\ (/\ db_type = "postgresql"
        /\ last.op \in {"check_database_exists", "drop_database",
                        "create_database"}) =>
          last.dbname = "postgres"

C22_Witness ==
    /\ db_type = "postgresql"
    /\ last.op = "drop_database"
    /\ last.after = "create_database"
    /\ last.up
    /\ last.dbname = "postgres"
    /\ db_params.self.dbname = "task_management"

\* C23: delete_task and update_task_status return True only for a task id
\* that matched a row, which is then deleted / holds the new status; when
\* they return False the tasks are as before.
C23_TrueIffEffect ==
    tmLast.op \in {"delete_task", "update_task_status"} =>
        /\ tmLast.ret = "true" => tmLast.hit
        /\ (tmLast.ret = "true" /\ tmLast.op = "delete_task") =>
              tmLast.id \notin DOMAIN tasks
        /\ tmLast.ret = "false" => ~tmLast.changed

\* C24: a run of initialize_database that returned has returned True if and
\* only if its start_container returned true, whatever the later steps came
\* to; a run whose start_container returned false has returned False after
\* that one call: no exists, drop, create or script, and no prompt.
C24_TrueIffStarted ==
    (pc = "idle" /\ run.calls # <<>> /\ run.ret # "raised") =>
        /\ run.ret \in {"true", "false"}
        /\ run.ret = "true" <=> run.started = "true"
        /\ run.started = "false" =>
              /\ run.ret = "false"
              /\ run.calls = <<"start_container">>

C24_Witness ==
    /\ pc = "idle"
    /\ run.started = "true"
    /\ run.ret = "true"
    /\ run.outcome = "error"
    /\ ~exists

\* C25: the call made right after a write that returned False, when the
\* engine is there and its arguments break no constraint, succeeds: a write
\* does not return False again and a read returns its rows.
C25_UsableAfterFailedWrite ==
    (tmLast.follows # "" /\ tmLast.valid) => tmLast.ret \notin {"false", "raised"}

\* C26: every task's status_id is the id of a status row, and add_task or
\* update_task_status given a status name that is no status row returns
\* False and leaves the tasks as they were.
C26_StatusRefersToRow ==
    /\ \A t \in DOMAIN tasks : tasks[t].status_id \in {1, 2, 3}
    /\ (/\ tmLast.op \in {"add_task", "update_task_status"}
        /\ tmLast.status \notin {"new", "in progress", "completed"}) =>
          /\ tmLast.ret = "false"
          /\ ~tmLast.changed

\* C27: get_users_without_tasks returns exactly the users that no task
\* refers to, also when some task has user_id NULL.
C27_UsersWithoutTasks ==
    (tmLast.op = "get_users_without_tasks" /\ tmLast.ret = "rows") =>
        tmLast.rows = {u \in 1..nUsers :
                         \A t \in DOMAIN tasks : tasks[t].user_id # u}

====
